---- MODULE Spec2Model ----
(***************************************************************************)
(* Model of the cmc attestation daemon's transport code.                   *)
(*                                                                         *)
(*  - the frame codec of package attestedtls (Write / Read: a 4-byte       *)
(*    big-endian length prefix in front of every message),                 *)
(*  - the local-socket binding of cmcd (SocketServer.Serve, handleIncoming *)
(*    and the four operation handlers of socket.go),                       *)
(*  - the gRPC binding of cmcd (the server methods of api.go).             *)
(*                                                                         *)
(* The codec and the daemon are independent programs; each has its own     *)
(* specification (SpecCodec, SpecService) over its own variables.          *)
(***************************************************************************)
EXTENDS Integers, Sequences, FiniteSets, TLC

(***************************************************************************)
(* Bounds of the model.                                                    *)
(***************************************************************************)
\* Capacity of tmpbuf, the buffer of one payload read.  The source uses
\* 1024; the model scales it down, the message lengths below scale with it.
ChunkSize == 3
\* Number of Write calls on the connection.
MaxWrites == 2
\* Number of Read calls on the connection.
MaxReads == 2

\* Width of the length prefix in bytes.
PrefixLen == 4

\* A uint32 is kept as the pair << high 16 bits, low 16 bits >>, so that
\* its arithmetic has the width it has in the program.
Half == 256 * 256
U32(n) == << (n \div Half) % Half, n % Half >>
U32Add(u, n) ==
    LET lo == u[2] + n
    IN  << (u[1] + (lo \div Half)) % Half, lo % Half >>

Byte == 0..255

Min(a, b) == IF a < b THEN a ELSE b

\* The lengths the framing must cope with: empty, one byte, one below the
\* chunk size, the chunk size, one above it, and three chunks plus one.
MsgLens == {0, 1, ChunkSize - 1, ChunkSize, ChunkSize + 1, 3 * ChunkSize + 1}

\* The message of length n the writer sends: its i-th byte is 16 * n + i
\* (mod 256), so that messages of different lengths differ in every byte.
MsgOf(n) == [i \in 1..n |-> (16 * n + i) % 256]

Messages == {MsgOf(n) : n \in MsgLens}

(***************************************************************************)
(* Frame codec: pure helpers.                                              *)
(***************************************************************************)
\* binary.BigEndian.PutUint32(lenbuf, uint32(n))
PutUint32(n) ==
    LET u == U32(n)
    IN  << u[1] \div 256, u[1] % 256, u[2] \div 256, u[2] % 256 >>

\* binary.BigEndian.Uint32(b), b a sequence of 4 bytes
Uint32(b) == << b[1] * 256 + b[2], b[3] * 256 + b[4] >>

\* make([]byte, 4): a zeroed buffer
ZeroLenbuf == [i \in 1..PrefixLen |-> 0]

\* The bytes Write hands to c.Write: append(lenbuf, msg...)
Frame(msg) == PutUint32(Len(msg)) \o msg

\* lenbuf after c.Read(lenbuf) stored the bytes got at its front
FillLenbuf(got) ==
    [i \in 1..PrefixLen |-> IF i <= Len(got) THEN got[i] ELSE ZeroLenbuf[i]]

\* Values a Read call returns.
NoBuf == << >>
RetOk(b)   == [isNil |-> FALSE, buf |-> b,     err |-> "nil"]
RetErr(e)  == [isNil |-> TRUE,  buf |-> NoBuf, err |-> e]

VARIABLES
    stream,     \* bytes written to the connection and not yet read
    connErr,    \* the connection has failed: every c.Read returns an error
    written,    \* the messages passed to Write, in order
    rpc,        \* position of the reader: "idle" or "loop"
    msglen,     \* Read's len: the decoded length prefix
    buf,        \* Read's buf: payload accumulated so far
    rcvlen,     \* Read's rcvlen (uint32)
    prefixGot,  \* number of bytes the prefix read of the current call got
    taken,      \* number of stream bytes the current Read call consumed
    results,    \* what the finished Read calls returned, in order
    audit       \* per finished Read call: what it did on the connection

codecVars == << stream, connErr, written, rpc, msglen, buf, rcvlen,
                prefixGot, taken, results, audit >>

(***************************************************************************)
(* State of the daemon (cmcd).                                             *)
(***************************************************************************)
\* Number of connections the listener accepts.
MaxConns == 2

Conns == 1..MaxConns

VARIABLES
    binding,    \* the server cmcd was started with: "socket" or "grpc"
    signerSet,  \* conf.Signer # nil
    leafCert,   \* the daemon has its leaf (TLS) certificate
    proc,       \* the process: "running", "crashed" (unrecovered panic),
                \* "killed" (signal, default action), "exited" (os.Exit)
    loop,       \* Serve: "start", "listening" (net.Listen done), "accept"
                \* (in the loop), "serving", "returned"
    sockFile,   \* the socket endpoint file at addr exists
    sig,        \* what a signal does: "default" (signal.Notify not yet
                \* called), "armed" (it wakes the goroutine of Serve)
    hpc,        \* per connection: position of its handleIncoming
    inbox,      \* per connection: the client sent a frame that the daemon
                \* has not read
    req,        \* per connection: the request handleIncoming received
    ran,        \* per connection: the operation handler that was invoked
    fault,      \* per connection: the call that failed in the handler
    sent,       \* per connection: the envelopes written to it, in order
    closed,     \* per connection: conn.Close() was called (or the fd died)
    rpcResp     \* gRPC binding: the last call and what it returned

\* The endpoint file and the signal goroutine of Serve.
sigVars == << sockFile, sig >>

svcVars == << binding, signerSet, leafCert, proc, loop, hpc, inbox, req, ran, fault,
              sent, closed, rpcResp, sigVars >>

(***************************************************************************)
(* State of a client that calls getCMCServiceConn.                         *)
(***************************************************************************)
\* Number of calls of getCMCServiceConn.
MaxDials == 3

VARIABLES
    dial,       \* the call of getCMCServiceConn under way
    dials       \* what the finished calls returned, in order

dialVars == << dial, dials >>

vars == << codecVars, svcVars, dialVars >>

\* No call of getCMCServiceConn is under way.
NoDial == [pc |-> "idle", cc |-> "none", ctx |-> "none", attempts |-> 0,
           err |-> "none"]

DialStart ==
    /\ dial = NoDial
    /\ dials = << >>

NoReq == [frame |-> "none", tag |-> "none", body |-> "none",
          root |-> "none", ca |-> "none"]
NoArgs == [op |-> "none"]
NoCall == [op |-> "none", call |-> NoArgs,
          status |-> "none", data |-> "none", msg |-> "none",
           callErr |-> FALSE, fault |-> "none", failed |-> {}]

\* The daemon before anything happened.
ServiceStart ==
    /\ proc = "running"
    /\ loop = "start"
    /\ sockFile = FALSE
    /\ sig = "default"
    /\ hpc = [c \in Conns |-> "none"]
    /\ inbox = [c \in Conns |-> FALSE]
    /\ req = [c \in Conns |-> NoReq]
    /\ ran = [c \in Conns |-> "none"]
    /\ fault = [c \in Conns |-> "none"]
    /\ sent = [c \in Conns |-> << >>]
    /\ closed = [c \in Conns |-> FALSE]
    /\ rpcResp = NoCall

\* The codec runs in the client library, with no daemon state involved.
CodecStart ==
    /\ stream = << >>
    /\ connErr = FALSE
    /\ written = << >>
    /\ rpc = "idle"
    /\ msglen = U32(0)
    /\ buf = << >>
    /\ rcvlen = U32(0)
    /\ prefixGot = 0
    /\ taken = 0
    /\ results = << >>
    /\ audit = << >>

InitCodec ==
    /\ CodecStart
    /\ ServiceStart
    /\ DialStart
    /\ binding = "socket"
    /\ signerSet = TRUE
    /\ leafCert = TRUE

(***************************************************************************)
(* Write: one c.Write of the 4-byte prefix followed by the message.        *)
(***************************************************************************)
Write(msg) ==
    /\ Len(written) < MaxWrites
    /\ ~ connErr
    /\ stream' = stream \o Frame(msg)
    /\ written' = Append(written, msg)
    /\ UNCHANGED << connErr, rpc, msglen, buf, rcvlen, prefixGot, taken,
                    results, audit >>
    /\ UNCHANGED << svcVars, dialVars >>

(***************************************************************************)
(* Read.  Every c.Read is one step: the connection hands over n bytes,     *)
(* at least one unless it reports an error, at most the capacity of the    *)
(* buffer passed in and at most what has arrived.  A read may fail at any  *)
(* time, with or without bytes; once the connection has failed, every      *)
(* read of it fails and delivers nothing.                                  *)
(***************************************************************************)
\* c.Read(p) with len(p) = cap can return n bytes and the error flag e.
CanRead(cap, n, e) ==
    /\ n \in 0..Min(cap, Len(stream))
    /\ (~ e) => n >= 1
    /\ connErr => (e /\ n = 0)

\* A Read that never rejects a zero length.
LenIsZeroNever(l) == FALSE

\* if len == 0
LenIsZero(l) == l = U32(0)

\* if rcvlen == len
GotAll(r, l) == r = l

\* A Read that hands the payload got so far to its caller on failure.
ReadFailedPartial(b, e) == [isNil |-> FALSE, buf |-> b, err |-> e]

\* return nil, fmt.Errorf(...) of a failed c.Read; b is the payload so far
ReadFailed(b, e) == RetErr(e)

\* The observations kept of a finished Read call.
Obs(len, got, tk) ==
    [msglen |-> len, prefixGot |-> got, taken |-> tk]

Return(ret, len, got, tk) ==
    /\ results' = Append(results, ret)
    /\ audit' = Append(audit, Obs(len, got, tk))
    /\ rpc' = "idle"

\* Read up to the payload loop: c.Read(lenbuf), the decoding of the
\* length and the zero-length test.
ReadLen(n, e) ==
    /\ rpc = "idle"
    /\ Len(results) < MaxReads
    /\ CanRead(PrefixLen, n, e)
    /\ connErr' = e
    /\ LET got == SubSeq(stream, 1, n)
           l   == Uint32(FillLenbuf(got))
       IN  /\ stream' = SubSeq(stream, n + 1, Len(stream))
           /\ msglen' = IF e THEN U32(0) ELSE l
           /\ buf' = << >>
           /\ rcvlen' = U32(0)
           /\ prefixGot' = n
           /\ taken' = n
           /\ IF e
                THEN Return(RetErr("no length"), U32(0), n, n)
                ELSE IF LenIsZero(l)
                THEN Return(RetErr("zero"), l, n, n)
                ELSE /\ rpc' = "loop"
                     /\ UNCHANGED << results, audit >>
    /\ UNCHANGED written
    /\ UNCHANGED << svcVars, dialVars >>

\* One iteration of the payload loop: c.Read(tmpbuf) and what follows.
ReadChunk(n, e) ==
    /\ rpc = "loop"
    /\ CanRead(ChunkSize, n, e)
    /\ connErr' = e
    /\ LET got == SubSeq(stream, 1, n)
           r   == U32Add(rcvlen, n)
           b   == buf \o got
       IN  /\ stream' = SubSeq(stream, n + 1, Len(stream))
           /\ rcvlen' = r
           /\ taken' = taken + n
           /\ IF e
                THEN /\ buf' = buf
                     /\ Return(ReadFailed(buf, "receive"), msglen,
                               prefixGot, taken + n)
                ELSE /\ buf' = b
                     /\ IF GotAll(r, msglen)
                          THEN Return(RetOk(b), msglen, prefixGot,
                                      taken + n)
                          ELSE UNCHANGED << rpc, results, audit >>
    /\ UNCHANGED << written, msglen, prefixGot >>
    /\ UNCHANGED << svcVars, dialVars >>

NextCodec ==
    \/ \E msg \in Messages : Write(msg)
    \/ \E n \in 0..PrefixLen, e \in BOOLEAN : ReadLen(n, e)
    \/ \E n \in 0..ChunkSize, e \in BOOLEAN : ReadChunk(n, e)

SpecCodec == InitCodec /\ [][NextCodec]_vars

(***************************************************************************)
(* Properties of the frame codec (checked under SpecCodec).                *)
(***************************************************************************)
\* The errors Read returns because a c.Read failed.
TransportErrs == {"no length", "receive"}

\* C1: a non-empty message b written with Write is returned unchanged by
\* the Read on the other end, however the connection splits the bytes into
\* the chunks its reads return (no read of the connection failing).
C1_RoundTrip ==
    (/\ Len(results) >= 1
     /\ Len(written) >= 1
     /\ written[1] # << >>
     /\ results[1].err \notin TransportErrs)
        => results[1] = RetOk(written[1])

\* C2: a Read consumes the 4 prefix bytes and the L payload bytes of one
\* frame and no byte of the frame behind it, so that successive Read calls
\* return the written messages in order.  Stated for Read calls whose
\* prefix read got all 4 bytes.
C2_Boundaries ==
    /\ (rpc = "loop" /\ Len(results) = 0 /\ prefixGot = PrefixLen)
            => taken <= PrefixLen + Len(written[1])
    /\ \A k \in 1..Len(results) :
            (/\ \A j \in 1..k : audit[j].prefixGot = PrefixLen
             /\ \A j \in 1..k : results[j].err \notin TransportErrs
             /\ results[k].err = "nil")
                => /\ k <= Len(written)
                   /\ results[k].buf = written[k]
                   /\ audit[k].taken = PrefixLen + Len(written[k])

\* C3: the length Read works with is the one encoded in the 4 prefix bytes
\* of the frame, also when the connection delivers the prefix in pieces.
\* Stated for the first Read call, which starts at the start of a frame.
C3_PrefixDecoded ==
    /\ (rpc = "loop" /\ Len(results) = 0)
            => msglen = U32(Len(written[1]))
    /\ (Len(results) >= 1 /\ results[1].err # "no length")
            => /\ Len(written) >= 1
               /\ audit[1].msglen = U32(Len(written[1]))
               /\ audit[1].prefixGot = PrefixLen

\* C4: when the length prefix decodes to 0, Read returns a nil payload and
\* an error straight away: it never enters the payload loop and takes no
\* byte from the connection beyond those of its prefix read.
C4_ZeroRejected ==
    /\ rpc = "loop" => msglen # U32(0)
    /\ \A k \in 1..Len(results) :
            (audit[k].msglen = U32(0) /\ results[k].err # "no length")
                => /\ results[k] = RetErr("zero")
                   /\ audit[k].taken = audit[k].prefixGot

\* C4 witness: a frame of length 0 was written and read, and rejected.
C4_Witness ==
    /\ Len(results) >= 1
    /\ Len(written) >= 1
    /\ written[1] = << >>
    /\ audit[1].prefixGot = PrefixLen
    /\ results[1] = RetErr("zero")

\* C5: a Read call that ends with an error returns a nil payload, and one
\* that ends without error returns a non-nil payload: nothing of a message
\* whose reading failed reaches the caller.
C5_NoPartial ==
    \A k \in 1..Len(results) :
        /\ results[k].err # "nil"
              => (results[k].isNil /\ results[k].buf = NoBuf)
        /\ results[k].err = "nil" => ~ results[k].isNil

\* C5 witness: the Read call that just returned had part of the payload
\* in buf when a read of its loop delivered further bytes together with an
\* error, and it returned nil.
C5_Witness ==
    /\ rpc = "idle"
    /\ Len(results) >= 1
    /\ results[Len(results)].err = "receive"
    /\ results[Len(results)].isNil
    /\ audit[Len(results)].prefixGot = PrefixLen
    /\ Len(buf) > 0
    /\ rcvlen[2] > Len(buf)

(***************************************************************************)
(* getCMCServiceConn: the client side of the gRPC binding.                 *)
(***************************************************************************)
\* The addresses a cmcConfig names (cmcAddress:cmcPort).
Targets == {"127.0.0.1:9955", "cmcd.example:9955"}

\* What grpc.DialContext with grpc.WithBlock() returns as err: nil once the
\* connection is up, or an error, which is the error of the context when
\* its timeout has expired.
DialErrs == {"nil", "connection error", "context deadline exceeded"}

\* A getCMCServiceConn that hands the cancel function to its caller when
\* the dial failed, instead of calling it.
DialReturnLeaky(err) ==
    IF err # "nil"
    THEN [client |-> "nil", conn |-> "nil", cancel |-> "set",
          cancelCalled |-> FALSE]
    ELSE [client |-> "set", conn |-> "set", cancel |-> "set",
          cancelCalled |-> FALSE]

\* getCMCServiceConn from the return of grpc.DialContext on: what it
\* returns, and whether it called cancel().
DialReturn(err) ==
    IF err # "nil"
    THEN [client |-> "nil", conn |-> "nil", cancel |-> "nil",
          cancelCalled |-> TRUE]
    ELSE [client |-> "set", conn |-> "set", cancel |-> "set",
          cancelCalled |-> FALSE]

\* A caller calls getCMCServiceConn(cc): context.WithTimeout.
getCMCServiceConn(cc) ==
    /\ dial.pc = "idle"
    /\ Len(dials) < MaxDials
    /\ dial' = [pc |-> "dialing", cc |-> cc, ctx |-> "live",
                attempts |-> 0, err |-> "none"]
    /\ UNCHANGED dials
    /\ UNCHANGED << codecVars, svcVars >>

\* grpc.DialContext returns.
DialContext(err) ==
    /\ dial.pc = "dialing"
    /\ dial' = [dial EXCEPT !.pc = "dialed",
                            !.attempts = @ + 1,
                            !.err = err,
                            !.ctx = IF err = "context deadline exceeded"
                                    THEN "expired" ELSE @]
    /\ UNCHANGED dials
    /\ UNCHANGED << codecVars, svcVars >>

\* The test of err, cancel() and the return.
DialDone ==
    /\ dial.pc = "dialed"
    /\ LET r == DialReturn(dial.err)
       IN  dials' = Append(dials,
                [cc |-> dial.cc, err |-> dial.err,
                 attempts |-> dial.attempts,
                 ctx |-> IF r.cancelCalled THEN "cancelled" ELSE dial.ctx,
                 client |-> r.client, conn |-> r.conn, cancel |-> r.cancel])
    /\ dial' = NoDial
    /\ UNCHANGED << codecVars, svcVars >>

NextDial ==
    \/ \E cc \in Targets : getCMCServiceConn(cc)
    \/ \E err \in DialErrs : DialContext(err)
    \/ DialDone

InitDial ==
    /\ CodecStart
    /\ ServiceStart
    /\ DialStart
    /\ binding = "grpc"
    /\ signerSet = TRUE
    /\ leafCert = TRUE

SpecDial == InitDial /\ [][NextDial]_vars

\* C16: every finished call of getCMCServiceConn made one dial attempt;
\* when the dial failed (the expiry of the timeout included) it cancelled
\* its context and returned nil for the client, the connection and the
\* cancel function, and when the dial succeeded it returned three non-nil
\* values.
C16_DialReported ==
    \A i \in 1..Len(dials) :
        LET d == dials[i]
            triple == {d.client, d.conn, d.cancel}
        IN  /\ d.attempts = 1
            /\ d.err # "nil" => (triple = {"nil"} /\ d.ctx = "cancelled")
            /\ d.err = "nil" => triple = {"set"}

\* C16 witness: a call whose dial ran into the timeout has returned three
\* nil values, and another call has returned a connection.
C16_Witness ==
    /\ \E i \in 1..Len(dials) :
            /\ dials[i].err = "context deadline exceeded"
            /\ dials[i].cancel = "nil"
            /\ dials[i].ctx = "cancelled"
    /\ \E i \in 1..Len(dials) : dials[i].conn = "set"

(***************************************************************************)
(* The envelope protocol as the handlers of socket.go use it.              *)
(***************************************************************************)
\* The operation tags: api.TypeAttest, api.TypeVerify, api.TypeTLSCert and
\* api.TypeTLSSign.
OpTags == {"Attest", "Verify", "TLSCert", "TLSSign"}

\* The tags a client can put into a frame: the four operations, the error
\* tag, and a value that is no tag at all (0xFF).
Tags == OpTags \cup {"Error", "Unknown"}

\* The certificate authorities: the one the daemon is configured with
\* (certs.Ca) and another one.
DaemonCa == "daemon CA"
CAs == {DaemonCa, "other CA"}

\* What a client sends on a connection: a well-framed envelope with a tag
\* and a body that unmarshals or not, or something api.Receive fails on
\* (a zero-length or cut-off frame, a closed connection), which may or may
\* not hold the tag of an operation.  A verification request names the CA
\* to trust (Ca) and holds a report whose certificate chain ends in the CA
\* "root", here the CA of the daemon that made the report.
BadFrame == [frame |-> "bad", tag |-> "none", body |-> "none",
             root |-> "none", ca |-> "none"]
BadFrames == {[BadFrame EXCEPT !.tag = t] : t \in {"none", "Attest"}}
PlainRequests ==
    {[frame |-> "ok", tag |-> t, body |-> b, root |-> "none", ca |-> "none"] :
        t \in Tags, b \in {"ok", "malformed"}}
NoOpRequests == {r \in PlainRequests : r.tag \notin OpTags /\ r.body = "ok"}
VerifyRequests ==
    {[frame |-> "ok", tag |-> "Verify", body |-> "ok", root |-> r, ca |-> a] :
        r \in {DaemonCa}, a \in CAs}
Requests ==
    {r \in PlainRequests :
        r.tag \in OpTags /\ ~ (r.tag = "Verify" /\ r.body = "ok")}
        \cup NoOpRequests \cup VerifyRequests \cup BadFrames

Env(tag, body) == [tag |-> tag, body |-> body]
NoEnv == Env("none", "none")

\* api.Receive(conn): payload, reqType, err
Receive(r) ==
    [err |-> r.frame # "ok", reqType |-> r.tag, payload |-> r.body]

\* api.SendError(conn, format, args...): one envelope with the error tag
SendError(msg) == Env("Error", msg)

\* api.Send(conn, data, reqType): one envelope with the tag given
Send(data, tag) == Env(tag, data)

\* json.Marshal(result) of a VerificationResult with the verdict given
ResultBody(verdict) == IF verdict THEN "result:true" ELSE "result:false"

(***************************************************************************)
(* What a stretch of handler code ends in: a response written and the      *)
(* handler returning, the handler going on to its next blocking call, or   *)
(* a nil dereference of conf.Signer.                                       *)
(***************************************************************************)
\* A handler that goes back to api.Receive after its response, keeping
\* the connection for further requests.
RepliedKeepOpen(env, f) ==
    [kind |-> "reply", env |-> env, fault |-> f, pc |-> "receive"]

Replied(env, f) ==
    [kind |-> "reply", env |-> env, fault |-> f, pc |-> "done"]
GoOn(pc) ==
    [kind |-> "goon", env |-> NoEnv, fault |-> "none", pc |-> pc]
NilDeref ==
    [kind |-> "panic", env |-> NoEnv, fault |-> "nil signer",
     pc |-> "panicked"]

\* The switch of handleIncoming.  An unknown tag is handled as an attest.
DispatchNoDefault(reqType) ==
    IF reqType \in OpTags THEN reqType ELSE "Attest"

\* The switch of handleIncoming.
Dispatch(reqType) ==
    CASE reqType = "Attest"  -> "Attest"
      [] reqType = "Verify"  -> "Verify"
      [] reqType = "TLSCert" -> "TLSCert"
      [] reqType = "TLSSign" -> "TLSSign"
      [] OTHER               -> "default"

\* A handleIncoming that does not test the error of api.Receive.
IncomingOutcomeNoErrCheck(r) ==
    LET rcv == Receive(r)
    IN  IF Dispatch(rcv.reqType) = "default"
        THEN Replied(SendError("Invalid Type"), "type")
        ELSE GoOn(Dispatch(rcv.reqType))

\* handleIncoming up to the call of the operation handler.
IncomingOutcome(r) ==
    LET rcv == Receive(r)
    IN  IF rcv.err
        THEN Replied(SendError("Failed to receive"), "receive")
        ELSE IF Dispatch(rcv.reqType) = "default"
        THEN Replied(SendError("Invalid Type"), "type")
        ELSE GoOn(Dispatch(rcv.reqType))

\* attest up to the call of ar.Sign.
AttestOutcome(payload, genOk, signer) ==
    IF payload # "ok"
    THEN Replied(SendError("failed to unmarshal attestation request"),
                 "unmarshal")
    ELSE IF ~genOk
    THEN Replied(SendError("failed to generate attestation report"),
                 "generate")
    ELSE IF ~signer
    THEN Replied(SendError("Failed to sign attestation report: No valid signer"),
                 "no signer")
    ELSE GoOn("Attest.Sign")

\* attest from the return of ar.Sign on.
AttestSignOutcome(signOk, marshalOk) ==
    IF ~signOk
    THEN Replied(SendError("Failed to sign attestation report"), "sign")
    ELSE IF ~marshalOk
    THEN Replied(SendError("failed to marshal message"), "marshal")
    ELSE Replied(Send("report", "Attest"), "none")

\* A verify that reports a failed verification as an error.
VerifyOutcomeStrict(payload, verdict, jsonOk, cborOk) ==
    IF payload # "ok"
    THEN Replied(SendError("Failed to unmarshal verification request"),
                 "unmarshal")
    ELSE IF ~verdict
    THEN Replied(SendError("Verifier: verification failed"), "verdict")
    ELSE IF ~jsonOk
    THEN Replied(SendError("Verifier: failed to marshal Attestation Result"),
                 "marshal result")
    ELSE IF ~cborOk
    THEN Replied(SendError("failed to marshal message"), "marshal")
    ELSE Replied(Send(ResultBody(verdict), "Verify"), "none")

\* verify.
VerifyOutcome(payload, verdict, jsonOk, cborOk) ==
    IF payload # "ok"
    THEN Replied(SendError("Failed to unmarshal verification request"),
                 "unmarshal")
    ELSE IF ~jsonOk
    THEN Replied(SendError("Verifier: failed to marshal Attestation Result"),
                 "marshal result")
    ELSE IF ~cborOk
    THEN Replied(SendError("failed to marshal message"), "marshal")
    ELSE Replied(Send(ResultBody(verdict), "Verify"), "none")

\* tlssign up to the call of Sign on the key handle.
TLSSignOutcome(payload, hashOk, signer, keyOk) ==
    IF payload # "ok"
    THEN Replied(SendError("failed to unmarshal payload"), "unmarshal")
    ELSE IF ~hashOk
    THEN Replied(SendError("failed to choose requested hash function"),
                 "hash")
    ELSE IF ~signer
    THEN NilDeref
    ELSE IF ~keyOk
    THEN Replied(SendError("failed to get IK"), "key")
    ELSE GoOn("TLSSign.Sign")

\* tlssign from the return of Sign on.
TLSSignSignOutcome(signOk, marshalOk) ==
    IF ~signOk
    THEN Replied(SendError("failed to sign"), "sign")
    ELSE IF ~marshalOk
    THEN Replied(SendError("failed to marshal message"), "marshal")
    ELSE Replied(Send("signature", "TLSSign"), "none")

\* conf.Signer.GetCertChain() written as PEM: the chain starts with the
\* leaf certificate, and is empty when the daemon has none.
CertsPem(leaf) == IF leaf THEN "certificate chain" ELSE "empty chain"

\* A tlscert that sends its response under the tag of tlssign.
TLSCertOutcomeWrongTag(payload, signer, leaf, marshalOk) ==
    IF payload # "ok"
    THEN Replied(SendError("failed to unmarshal payload"), "unmarshal")
    ELSE IF ~signer
    THEN NilDeref
    ELSE IF ~marshalOk
    THEN Replied(SendError("failed to marshal message"), "marshal")
    ELSE Replied(Send(CertsPem(leaf), "TLSSign"), "none")

\* tlscert.
TLSCertOutcome(payload, signer, leaf, marshalOk) ==
    IF payload # "ok"
    THEN Replied(SendError("failed to unmarshal payload"), "unmarshal")
    ELSE IF ~signer
    THEN NilDeref
    ELSE IF ~marshalOk
    THEN Replied(SendError("failed to marshal message"), "marshal")
    ELSE Replied(Send(CertsPem(leaf), "TLSCert"), "none")

\* ar.Verify(report, nonce, ca, policies): the verdict is positive when
\* the certificate chain of the report ends in the CA given and all the
\* other checks (signatures, nonce, policies) pass.
ArVerify(root, ca, checksOk) == checksOk /\ root = ca

\* ar.Sign succeeds when the signer signs and has the certificate chain
\* that Sign attaches to the report.
ArSign(signOk, leaf) == signOk /\ leaf

(***************************************************************************)
(* The daemon: Serve and the handlers of the socket binding.               *)
(***************************************************************************)
InitService ==
    /\ CodecStart
    /\ ServiceStart
    /\ DialStart
    /\ binding \in {"socket", "grpc"}
    /\ signerSet \in BOOLEAN
    /\ leafCert \in BOOLEAN
    /\ leafCert => signerSet

Serving == proc = "running" /\ binding = "socket"

\* The connection the next Accept returns: connections are numbered in the
\* order in which they are accepted.
NextConn(c) == hpc[c] = "none" /\ \A d \in Conns : d < c => hpc[d] # "none"

\* A Serve that calls handleIncoming itself instead of starting a
\* goroutine: the loop is busy with the connection it accepted.
AcceptInline(c) ==
    /\ Serving
    /\ loop = "accept"
    /\ NextConn(c)
    /\ hpc' = [hpc EXCEPT ![c] = "receive"]
    /\ loop' = "serving"
    /\ UNCHANGED << binding, signerSet, leafCert, proc, inbox, req, ran, fault, sent,
                    closed, rpcResp >>
    /\ UNCHANGED << codecVars, dialVars >>
    /\ UNCHANGED sigVars

\* One turn of the loop of Serve: socket.Accept() returns a connection and
\* go handleIncoming(conn, conf) starts its handler.
Accept(c) ==
    /\ Serving
    /\ loop = "accept"
    /\ NextConn(c)
    /\ hpc' = [hpc EXCEPT ![c] = "receive"]
    /\ loop' = "accept"
    /\ UNCHANGED << binding, signerSet, leafCert, proc, inbox, req, ran, fault, sent,
                    closed, rpcResp >>
    /\ UNCHANGED << codecVars, dialVars >>
    /\ UNCHANGED sigVars

\* socket.Accept() fails: Serve returns the error.
AcceptFail ==
    /\ Serving
    /\ loop = "accept"
    /\ loop' = "returned"
    /\ UNCHANGED << binding, signerSet, leafCert, proc, hpc, inbox, req, ran, fault,
                    sent, closed, rpcResp >>
    /\ UNCHANGED << codecVars, dialVars >>
    /\ UNCHANGED sigVars

\* The client of an accepted connection sends a frame: its first one, or
\* another one after the daemon has read the one before.
ClientSend(c) ==
    /\ proc = "running"
    /\ hpc[c] # "none"
    /\ ~ closed[c]
    /\ ~ inbox[c]
    /\ inbox' = [inbox EXCEPT ![c] = TRUE]
    /\ UNCHANGED << binding, signerSet, leafCert, proc, loop, hpc, req, ran, fault,
                    sent, closed, rpcResp >>
    /\ UNCHANGED << codecVars, dialVars >>
    /\ UNCHANGED sigVars

\* The effect of a stretch of handler code on the connection c.  A handler
\* that returns closes the connection (defer conn.Close()); a panic runs
\* the deferred Close and then ends the process, with all its connections.
\* The frame that api.Receive reads is pending no more, and what a client
\* sent on a connection that is closed before it is read is lost.
Step(c, o) ==
    /\ hpc' = [hpc EXCEPT ![c] = o.pc]
    /\ fault' = [fault EXCEPT ![c] = o.fault]
    /\ sent' = [sent EXCEPT ![c] =
                    IF o.kind = "reply" THEN Append(@, o.env) ELSE @]
    /\ closed' = [d \in Conns |->
                    CASE o.kind = "goon"  -> closed[d]
                      [] o.kind = "reply" ->
                            closed[d] \/ (d = c /\ o.pc = "done")
                      [] OTHER            -> closed[d] \/ hpc[d] # "none"]
    /\ inbox' = [d \in Conns |->
                    /\ inbox[d]
                    /\ ~ closed'[d]
                    /\ ~ (d = c /\ hpc[c] = "receive")]
    /\ proc' = IF o.kind = "panic" THEN "crashed" ELSE proc

\* handleIncoming: api.Receive and the switch on the request type.  r is
\* the frame that api.Receive reads, the one the client sent.
HandleIncoming(c, r) ==
    /\ Serving
    /\ hpc[c] = "receive"
    /\ inbox[c]
    /\ LET o == IncomingOutcome(r)
       IN  /\ req' = [req EXCEPT ![c] = r]
           /\ ran' = [ran EXCEPT ![c] =
                        IF o.kind = "goon" THEN o.pc ELSE @]
           /\ Step(c, o)
    /\ UNCHANGED << binding, signerSet, leafCert, loop, rpcResp >>
    /\ UNCHANGED << codecVars, dialVars >>
    /\ UNCHANGED sigVars

\* What the operation handlers leave alone.
handlerKeeps == << binding, signerSet, leafCert, loop, req, ran, rpcResp >>

\* attest: unmarshal, ar.Generate, the test of conf.Signer.
Attest(c, genOk) ==
    /\ Serving
    /\ hpc[c] = "Attest"
    /\ Step(c, AttestOutcome(req[c].body, genOk, signerSet))
    /\ UNCHANGED handlerKeeps
    /\ UNCHANGED << codecVars, dialVars >>
    /\ UNCHANGED sigVars

\* attest: ar.Sign returns, the response is marshaled and sent.
AttestSign(c, signOk, marshalOk) ==
    /\ Serving
    /\ hpc[c] = "Attest.Sign"
    /\ Step(c, AttestSignOutcome(ArSign(signOk, leafCert), marshalOk))
    /\ UNCHANGED handlerKeeps
    /\ UNCHANGED << codecVars, dialVars >>
    /\ UNCHANGED sigVars

\* verify: unmarshal, ar.Verify against the CA and the policies of the
\* request, marshal, send.
Verify(c, checksOk, jsonOk, cborOk) ==
    /\ Serving
    /\ hpc[c] = "Verify"
    /\ Step(c, VerifyOutcome(req[c].body,
                             ArVerify(req[c].root, req[c].ca, checksOk),
                             jsonOk, cborOk))
    /\ UNCHANGED handlerKeeps
    /\ UNCHANGED << codecVars, dialVars >>
    /\ UNCHANGED sigVars

\* tlssign: unmarshal, api.HashToSignerOpts, conf.Signer.GetSigningKeys().
TLSSign(c, hashOk, keyOk) ==
    /\ Serving
    /\ hpc[c] = "TLSSign"
    /\ Step(c, TLSSignOutcome(req[c].body, hashOk, signerSet, keyOk))
    /\ UNCHANGED handlerKeeps
    /\ UNCHANGED << codecVars, dialVars >>
    /\ UNCHANGED sigVars

\* tlssign: Sign on the key handle returns, the response is sent.
TLSSignSign(c, signOk, marshalOk) ==
    /\ Serving
    /\ hpc[c] = "TLSSign.Sign"
    /\ Step(c, TLSSignSignOutcome(signOk, marshalOk))
    /\ UNCHANGED handlerKeeps
    /\ UNCHANGED << codecVars, dialVars >>
    /\ UNCHANGED sigVars

\* tlscert: unmarshal, conf.Signer.GetCertChain(), marshal, send.
TLSCert(c, marshalOk) ==
    /\ Serving
    /\ hpc[c] = "TLSCert"
    /\ Step(c, TLSCertOutcome(req[c].body, signerSet, leafCert, marshalOk))
    /\ UNCHANGED handlerKeeps
    /\ UNCHANGED << codecVars, dialVars >>
    /\ UNCHANGED sigVars

(***************************************************************************)
(* The gRPC binding (api.go).                                              *)
(***************************************************************************)
\* (*server).Verify: the response and the call error it returns
RpcVerifyResp(verdict, jsonOk) ==
    [op |-> "Verify", call |-> NoArgs,
     status |-> IF jsonOk THEN "OK" ELSE "FAIL",
     data |-> IF jsonOk THEN ResultBody(verdict) ELSE "nil",
     msg |-> "none",
     callErr |-> FALSE,
     fault |-> IF jsonOk THEN "none" ELSE "marshal result",
     failed |-> IF jsonOk THEN {} ELSE {"marshal result"}]

\* A response of the gRPC binding: the request and the results of the calls
\* the method made (filled in by the method), the status, the payload, the message
\* inside the response (its types are never given one), whether the method
\* returned a non-nil error beside it, the failure the method noticed, and
\* the calls that failed while it ran.
RpcResp(op, status, data, callErr, f, failed) ==
    [op |-> op, call |-> NoArgs,
     status |-> status, data |-> data, msg |-> "none",
     callErr |-> callErr, fault |-> f, failed |-> failed]

\* What ar.Generate returns: the method gets no error from it, and a
\* report that lacks the measurements of a source that failed.
Generated(genOk) == IF genOk THEN "report" ELSE "partial report"

\* (*server).Attest
RpcAttestResp(genOk, keyOk, signOk) ==
    LET failed == (IF genOk THEN {} ELSE {"generate"})
                  \cup (IF keyOk THEN {} ELSE {"key"})
                  \cup (IF keyOk /\ ~ signOk THEN {"sign"} ELSE {})
    IN  IF ~ keyOk
        THEN RpcResp("Attest", "FAIL", "nil", FALSE, "key", failed)
        ELSE IF ~ signOk
        THEN RpcResp("Attest", "FAIL", "nil", FALSE, "sign", failed)
        ELSE RpcResp("Attest", "OK", Generated(genOk), FALSE, "none", failed)

\* (*server).TLSSign
RpcTLSSignResp(hashOk, keyOk, signOk) ==
    IF ~ hashOk
    THEN RpcResp("TLSSign", "FAIL", "nil", TRUE, "hash", {"hash"})
    ELSE IF ~ keyOk
    THEN RpcResp("TLSSign", "FAIL", "nil", TRUE, "key", {"key"})
    ELSE IF ~ signOk
    THEN RpcResp("TLSSign", "FAIL", "nil", TRUE, "sign", {"sign"})
    ELSE RpcResp("TLSSign", "OK", "signature", FALSE, "none", {})

\* (*server).TLSCert
RpcTLSCertResp(leaf) ==
    IF ~ leaf
    THEN RpcResp("TLSCert", "FAIL", "nil", TRUE, "no certificate",
                 {"no certificate"})
    ELSE RpcResp("TLSCert", "OK", CertsPem(leaf), FALSE, "none", {})

\* What a method of the gRPC binding leaves alone.
rpcKeeps == << binding, signerSet, leafCert, proc, loop, hpc, inbox, req,
              ran, fault, sent, closed >>

RpcAttest(genOk, keyOk, signOk) ==
    /\ proc = "running"
    /\ binding = "grpc"
    /\ rpcResp' = [RpcAttestResp(genOk, keyOk, ArSign(signOk, leafCert))
                    EXCEPT !.call = [op |-> "Attest", genOk |-> genOk,
                                     keyOk |-> keyOk, signOk |-> signOk]]
    /\ UNCHANGED rpcKeeps
    /\ UNCHANGED << codecVars, dialVars >>
    /\ UNCHANGED sigVars

RpcTLSSign(hashOk, keyOk, signOk) ==
    /\ proc = "running"
    /\ binding = "grpc"
    /\ rpcResp' = [RpcTLSSignResp(hashOk, keyOk, signOk)
                    EXCEPT !.call = [op |-> "TLSSign", hashOk |-> hashOk,
                                     keyOk |-> keyOk, signOk |-> signOk]]
    /\ UNCHANGED rpcKeeps
    /\ UNCHANGED << codecVars, dialVars >>
    /\ UNCHANGED sigVars

RpcTLSCert ==
    /\ proc = "running"
    /\ binding = "grpc"
    /\ rpcResp' = [RpcTLSCertResp(leafCert)
                    EXCEPT !.call = [op |-> "TLSCert"]]
    /\ UNCHANGED rpcKeeps
    /\ UNCHANGED << codecVars, dialVars >>
    /\ UNCHANGED sigVars

\* (*server).Verify: the report is judged against the CA and the roles of
\* the daemon (s.certs.Ca, s.roles).  root and ca are the fields of the
\* request, as in a request of the socket binding.
RpcVerify(root, ca, checksOk, jsonOk) ==
    /\ proc = "running"
    /\ binding = "grpc"
    /\ rpcResp' = [RpcVerifyResp(ArVerify(root, DaemonCa, checksOk), jsonOk)
                    EXCEPT !.call = [op |-> "Verify", root |-> root,
                                     ca |-> ca, checksOk |-> checksOk,
                                     jsonOk |-> jsonOk]]
    /\ UNCHANGED << binding, signerSet, leafCert, proc, loop, hpc, inbox, req, ran,
                    fault, sent, closed >>
    /\ UNCHANGED << codecVars, dialVars >>
    /\ UNCHANGED sigVars

(***************************************************************************)
(* Serve before its loop, and the signal goroutine it starts.              *)
(***************************************************************************)
\* All connections of the process are gone when the process ends.
AllClosed == [d \in Conns |-> closed[d] \/ hpc[d] # "none"]

\* The process ends: its connections are closed and its goroutines are
\* gone, with the requests they held.  What the clients were sent stays.
ProcessEnds ==
    /\ closed' = AllClosed
    /\ hpc' = [d \in Conns |-> IF hpc[d] = "none" THEN "none" ELSE "gone"]
    /\ inbox' = [d \in Conns |-> FALSE]
    /\ req' = [d \in Conns |-> NoReq]
    /\ ran' = [d \in Conns |-> "none"]
    /\ fault' = [d \in Conns |-> "none"]

\* net.Listen(conf.Network, addr) succeeds: the endpoint file is created.
Listen ==
    /\ Serving
    /\ loop = "start"
    /\ ~ sockFile
    /\ loop' = "listening"
    /\ sockFile' = TRUE
    /\ UNCHANGED << binding, signerSet, leafCert, proc, hpc, inbox, req, ran, fault,
                    sent, closed, rpcResp, sig >>
    /\ UNCHANGED << codecVars, dialVars >>

\* net.Listen fails: Serve returns the error.
ListenFail ==
    /\ Serving
    /\ loop = "start"
    /\ loop' = "returned"
    /\ UNCHANGED << binding, signerSet, leafCert, proc, hpc, inbox, req, ran, fault,
                    sent, closed, rpcResp, sigVars >>
    /\ UNCHANGED << codecVars, dialVars >>

\* make(chan os.Signal, 1), signal.Notify(c, os.Interrupt, syscall.SIGTERM)
\* and the start of the goroutine that waits on c.
Notify ==
    /\ Serving
    /\ loop = "listening"
    /\ loop' = "accept"
    /\ sig' = "armed"
    /\ UNCHANGED << binding, signerSet, leafCert, proc, hpc, inbox, req, ran, fault,
                    sent, closed, rpcResp, sockFile >>
    /\ UNCHANGED << codecVars, dialVars >>

\* An interrupt or SIGTERM is delivered to the process.  Before
\* signal.Notify the signal has its default action and ends the process;
\* after it the signal is passed to the channel and the goroutine that
\* waits on it runs os.Remove(addr) and os.Exit(1).
Signal ==
    /\ proc = "running"
    /\ sig \in {"default", "armed"}
    /\ IF sig = "default"
         THEN /\ proc' = "killed"
              /\ sockFile' = sockFile
         ELSE /\ proc' = "exited"
              /\ sockFile' = FALSE
    /\ ProcessEnds
    /\ UNCHANGED << binding, signerSet, leafCert, loop, sent, rpcResp, sig >>
    /\ UNCHANGED << codecVars, dialVars >>

NextService ==
    \/ Listen
    \/ ListenFail
    \/ Notify
    \/ Signal
    \/ \E c \in Conns : Accept(c)
    \/ AcceptFail
    \/ \E c \in Conns : ClientSend(c)
    \/ \E c \in Conns, r \in Requests : HandleIncoming(c, r)
    \/ \E c \in Conns, genOk \in BOOLEAN : Attest(c, genOk)
    \/ \E c \in Conns, signOk \in BOOLEAN, marshalOk \in BOOLEAN :
            AttestSign(c, signOk, marshalOk)
    \/ \E c \in Conns, checksOk \in BOOLEAN, jsonOk \in BOOLEAN,
          cborOk \in BOOLEAN : Verify(c, checksOk, jsonOk, cborOk)
    \/ \E c \in Conns, hashOk \in BOOLEAN, keyOk \in BOOLEAN :
            TLSSign(c, hashOk, keyOk)
    \/ \E c \in Conns, signOk \in BOOLEAN, marshalOk \in BOOLEAN :
            TLSSignSign(c, signOk, marshalOk)
    \/ \E c \in Conns, marshalOk \in BOOLEAN : TLSCert(c, marshalOk)
    \/ \E root \in CAs, ca \in CAs, checksOk \in BOOLEAN, jsonOk \in BOOLEAN :
            RpcVerify(root, ca, checksOk, jsonOk)
    \/ \E genOk \in BOOLEAN, keyOk \in BOOLEAN, signOk \in BOOLEAN :
            RpcAttest(genOk, keyOk, signOk)
    \/ \E hashOk \in BOOLEAN, keyOk \in BOOLEAN, signOk \in BOOLEAN :
            RpcTLSSign(hashOk, keyOk, signOk)
    \/ RpcTLSCert

SpecService == InitService /\ [][NextService]_vars

(***************************************************************************)
(* Properties of the daemon (checked under SpecService).                   *)
(***************************************************************************)
\* The handler of the connection c has ended, by returning or by a panic.
Ended(c) == hpc[c] \in {"done", "panicked"}

\* handleIncoming received a request on the connection c.
Received(c) == req[c].frame = "ok"

\* C6: with no signer configured (conf.Signer = nil), an Attest, TLSSign or
\* TLSCert request on the socket binding is answered with one error
\* envelope on its connection, and the daemon keeps running.
C6_MissingSigner ==
    (binding = "socket" /\ ~ signerSet)
        => /\ proc # "crashed"
           /\ \A c \in Conns :
                (/\ Received(c)
                 /\ req[c].tag \in {"Attest", "TLSSign", "TLSCert"}
                 /\ Ended(c))
                    => /\ Len(sent[c]) = 1
                       /\ sent[c][1].tag = "Error"

\* C7: on every path of the socket handler exactly one envelope is written
\* to the connection between the receipt of the request and the end of the
\* handler, and never more than one at any time.
C7_OneResponse ==
    \A c \in Conns :
        /\ Len(sent[c]) <= 1
        /\ (Received(c) /\ Ended(c)) => Len(sent[c]) = 1

\* C8: a request whose tag is none of the four operation tags is answered
\* with one error envelope, its connection is closed, no operation handler
\* is invoked for it and its handler does not bring the process down.
C8_UnknownTag ==
    \A c \in Conns :
        (Received(c) /\ req[c].tag \notin OpTags)
            => /\ hpc[c] = "done"
               /\ sent[c] = << SendError("Invalid Type") >>
               /\ closed[c]
               /\ ran[c] = "none"
               /\ proc = "crashed"
                    => \E d \in Conns : d # c /\ hpc[d] = "panicked"

\* C8 witness: a frame with the tag 0xFF was received and answered.
C8_Witness ==
    \E c \in Conns :
        /\ Received(c)
        /\ req[c].tag = "Unknown"
        /\ hpc[c] = "done"
        /\ sent[c] = << SendError("Invalid Type") >>

\* The failures after which Verify answers with an error.
VerifyErrFaults == {"unmarshal", "marshal result", "marshal"}

\* C9: in both bindings Verify answers with a success response that carries
\* the serialized result, whatever the verdict, unless the request could
\* not be unmarshaled or the result could not be marshaled; only then does
\* it answer with an error envelope (socket) or the status FAIL (gRPC).
C9_VerifyNotError ==
    /\ \A c \in Conns :
          (ran[c] = "Verify" /\ hpc[c] = "done")
              => /\ Len(sent[c]) = 1
                 /\ fault[c] = "unmarshal" <=> req[c].body # "ok"
                 /\ IF fault[c] \in VerifyErrFaults
                      THEN sent[c][1].tag = "Error"
                      ELSE \E v \in BOOLEAN :
                              sent[c][1] = Send(ResultBody(v), "Verify")
    /\ rpcResp.op = "Verify"
          => /\ ~ rpcResp.callErr
             /\ rpcResp.status = "FAIL" <=> rpcResp.fault = "marshal result"
             /\ rpcResp.status = "OK"
                  => \E v \in BOOLEAN : rpcResp.data = ResultBody(v)

\* C9 witness: a verification with the verdict false was answered with a
\* success response on the socket binding.
C9_Witness ==
    \E c \in Conns :
        /\ ran[c] = "Verify"
        /\ hpc[c] = "done"
        /\ fault[c] = "none"
        /\ sent[c] = << Send(ResultBody(FALSE), "Verify") >>

\* Serve has entered its loop and socket.Accept has not failed.
InLoop == loop \notin {"start", "listening", "returned"}

\* C10: as long as the daemon runs and Accept has not failed, the accept
\* loop is ready to accept the next connection, whatever the handlers of
\* the connections accepted so far are doing, and a step of a handler is
\* never a step of the loop.
C10_AcceptNotBlocked ==
    /\ [](  (Serving /\ InLoop)
              => \A c \in Conns : NextConn(c) => ENABLED Accept(c))
    /\ [][ (\E c \in Conns : hpc[c] # "none" /\ hpc'[c] # hpc[c])
              => loop' = loop ]_vars

\* C10 witness: the first connection is blocked in api.Receive, its client
\* having sent nothing, and a connection accepted after it has been served.
C10_Witness ==
    /\ MaxConns >= 2
    /\ hpc[1] = "receive"
    /\ ~ inbox[1]
    /\ req[1] = NoReq
    /\ hpc[2] = "done"
    /\ Len(sent[2]) = 1

\* C11: once the listener has been created, a process that an interrupt
\* or SIGTERM has ended has removed the socket endpoint file.
C11_SocketCleanup ==
    (binding = "socket" /\ loop # "start" /\ proc \in {"killed", "exited"})
        => ~ sockFile

\* C12: in both bindings an Attest whose report generation or signing
\* failed is answered with a failure that carries no report, no response
\* both reports a failure and carries report bytes, and a success response
\* is sent only when Generate and Sign both succeeded.
C12_NoPartialReport ==
    /\ \A c \in Conns :
          (ran[c] = "Attest" /\ hpc[c] = "done")
              => /\ fault[c] # "none" => sent[c][1].tag = "Error"
                 /\ sent[c][1].tag = "Attest"
                      => (fault[c] = "none" /\ sent[c][1].body = "report")
    /\ rpcResp.op = "Attest"
          => /\ rpcResp.failed \cap {"generate", "sign"} # {}
                  => (rpcResp.status = "FAIL" /\ rpcResp.data = "nil")
             /\ rpcResp.status = "FAIL" => rpcResp.data = "nil"
             /\ rpcResp.status = "OK"
                  => (rpcResp.failed = {} /\ rpcResp.data = "report")

\* C13: a daemon without its leaf certificate answers TLSCert and Attest
\* with a failure and never with a success, in both bindings.  Stated for
\* a daemon that has a signer.
C13_AbsentLeaf ==
    (signerSet /\ ~ leafCert)
        => /\ \A c \in Conns :
                (ran[c] \in {"Attest", "TLSCert"} /\ Ended(c))
                    => /\ Len(sent[c]) = 1
                       /\ sent[c][1].tag = "Error"
           /\ rpcResp.op \in {"Attest", "TLSCert"}
                => rpcResp.status = "FAIL"

\* The failures of the application, as opposed to those of the transport.
AppFaults == {"key", "sign", "hash"}

\* C14: in both bindings a response is a success with a payload or a
\* failure with a message, and a failure of the application (no key, a
\* failed signature, an unsupported hash) reaches the caller as such a
\* response and not as an error of the call.
C14_StatusAndMessage ==
    /\ \A c \in Conns : \A i \in 1..Len(sent[c]) :
          /\ sent[c][i].body # "none"
          /\ fault[c] \in AppFaults => sent[c][i].tag = "Error"
    /\ rpcResp.op # "none"
          => /\ rpcResp.status = "OK" => rpcResp.data # "nil"
             /\ rpcResp.status = "FAIL" => rpcResp.msg # "none"
             /\ rpcResp.fault \in AppFaults => ~ rpcResp.callErr

\* The outcome class of a response envelope of the socket binding, and of
\* a response of the gRPC binding.
Class(env) == IF env.tag = "Error" THEN "failure" ELSE "success"
RpcClass(resp) == IF resp.status = "OK" THEN "success" ELSE "failure"

\* What the handlers of the socket binding answer to the request and the
\* results a of a call of the gRPC binding: the request well formed, the
\* daemon with a signer and the leaf certificate given.
SocketAnswer(a, leaf) ==
    CASE a.op = "Attest" ->
            LET o == AttestOutcome("ok", a.genOk, TRUE)
            IN  IF o.kind = "reply" THEN o.env
                ELSE AttestSignOutcome(ArSign(a.keyOk /\ a.signOk, leaf),
                                       TRUE).env
      [] a.op = "Verify" ->
            VerifyOutcome("ok", ArVerify(a.root, a.ca, a.checksOk),
                          a.jsonOk, TRUE).env
      [] a.op = "TLSSign" ->
            LET o == TLSSignOutcome("ok", a.hashOk, TRUE, a.keyOk)
            IN  IF o.kind = "reply" THEN o.env
                ELSE TLSSignSignOutcome(a.signOk, TRUE).env
      [] a.op = "TLSCert" -> TLSCertOutcome("ok", TRUE, leaf, TRUE).env

\* C15: a call of the gRPC binding ends in the outcome class (success or
\* failure) in which the socket binding ends for the same request, the same
\* results of the calls made and the same certificates, and in both
\* bindings the verdict of Verify is the judgment of the report against
\* the CA that the request names.
C15_BindingParity ==
    /\ rpcResp.op # "none"
          => /\ RpcClass(rpcResp) = Class(SocketAnswer(rpcResp.call, leafCert))
             /\ (rpcResp.op = "Verify" /\ rpcResp.status = "OK")
                  => rpcResp.data =
                        ResultBody(ArVerify(rpcResp.call.root,
                                            rpcResp.call.ca,
                                            rpcResp.call.checksOk))
    /\ \A c \in Conns : \A i \in 1..Len(sent[c]) :
          (sent[c][i].tag = "Verify" /\ sent[c][i].body = ResultBody(TRUE))
              => req[c].root = req[c].ca

\* C17: a connection of the socket binding on which a response was written,
\* or whose handler has returned, is closed and has got one response at
\* most; the request a handler holds is the only one it ever reads from
\* its connection, and a frame that a client sent leaves the connection
\* only as that first request or when the connection is closed.
C17_OneRequestThenClosed ==
    /\ [](\A c \in Conns :
            /\ (Len(sent[c]) > 0 \/ Ended(c)) => closed[c]
            /\ Len(sent[c]) <= 1
            /\ closed[c] => ~ inbox[c])
    /\ [][\A c \in Conns :
            /\ (req[c] # NoReq /\ proc' = "running") => req'[c] = req[c]
            /\ (inbox[c] /\ ~ inbox'[c])
                  => (req[c] = NoReq \/ closed'[c])]_vars

\* C17 witness: the first connection was closed after the response to its
\* request, and on the second one the client has sent another frame while
\* the handler is busy with the request it received.
C17_Witness ==
    /\ MaxConns >= 2
    /\ hpc[1] = "done"
    /\ closed[1]
    /\ Len(sent[1]) = 1
    /\ sent[1][1].tag = req[1].tag
    /\ hpc[2] = "Verify"
    /\ req[2] # NoReq
    /\ inbox[2]

\* C18: on the socket binding a response with an operation tag answers a
\* request with that tag and reports no failure, a response to a request
\* whose handling failed has the Error tag, and a frame with the Error tag
\* starts no operation handler and is answered with an error.
C18_TagDiscipline ==
    \A c \in Conns :
        hpc[c] # "gone"
            => /\ \A i \in 1..Len(sent[c]) :
                    /\ sent[c][i].tag \in OpTags \cup {"Error"}
                    /\ sent[c][i].tag \in OpTags
                          => (sent[c][i].tag = req[c].tag /\ fault[c] = "none")
                    /\ fault[c] # "none" => sent[c][i].tag = "Error"
               /\ req[c].tag = "Error"
                    => /\ ran[c] = "none"
                       /\ Ended(c) => (Len(sent[c]) = 1
                                        /\ sent[c][1].tag = "Error")

\* C18 witness: a TLSCert request was answered under the TLSCert tag, and
\* a frame with the Error tag was answered with an error.
C18_Witness ==
    /\ MaxConns >= 2
    /\ req[1].tag = "TLSCert"
    /\ Len(sent[1]) = 1
    /\ sent[1][1].tag = "TLSCert"
    /\ req[2].frame = "ok"
    /\ req[2].tag = "Error"
    /\ Len(sent[2]) = 1
    /\ sent[2][1] = SendError("Invalid Type")

\* C19: when api.Receive has failed on a connection, no operation handler
\* runs for it, nothing but an error envelope is written to it, and the
\* connection is closed.
C19_ReceiveFailure ==
    \A c \in Conns :
        req[c].frame = "bad"
            => /\ ran[c] = "none"
               /\ hpc[c] = "done"
               /\ closed[c]
               /\ \A i \in 1..Len(sent[c]) : sent[c][i].tag = "Error"

\* C19 witness: api.Receive failed on a frame that holds the tag of an
\* operation, and the connection is closed with no handler run.
C19_Witness ==
    /\ req[1].frame = "bad"
    /\ req[1].tag = "Attest"
    /\ ran[1] = "none"
    /\ closed[1]

\* The handler of the connection c takes a step.
HandlerStep(c) == hpc[c] \notin {"none", "gone"} /\ hpc'[c] \notin {hpc[c], "gone"}

\* C20: a step of the handler of one connection, whatever its request and
\* the failure it ends in, leaves the process running, the accept loop
\* where it is, and every other connection as it is: open if it was open,
\* with its handler, its request and its responses untouched.
C20_Independent ==
    [][\A c \in Conns :
        HandlerStep(c)
            => /\ proc' = "running"
               /\ loop' = loop
               /\ \A d \in Conns \ {c} :
                    /\ closed'[d] = closed[d]
                    /\ hpc'[d] = hpc[d]
                    /\ inbox'[d] = inbox[d]
                    /\ req'[d] = req[d]
                    /\ sent'[d] = sent[d]]_vars
====
